---- MODULE Spec2Model ----
(***************************************************************************)
(* Model of minesweeper.py: the Minesweeper board, the Sentence class and  *)
(* the MinesweeperAI knowledge base with its single-pass inference.        *)
(***************************************************************************)
EXTENDS Integers, Sequences, FiniteSets, TLC

VARIABLES board, moves_made, mines, safes, knowledge, op, ret, calls, trusted

vars == <<board, moves_made, mines, safes, knowledge, op, ret, calls, trusted>>

(* ---------------- bounds ---------------- *)
Height == 2
Width == 3
MaxCount == 3
MaxMines == 2
\* calls made on the agent by an arbitrary caller
MaxCalls == 2
\* calls made before the agent is asked for moves
MaxSetup == 1
\* cells revealed in a game with filtered counts / with raw counts
MaxMoves == 2
MaxRawMoves == 4
\* a lone Sentence: size of its cell set, calls made on it
MaxLen == 3
MaxMarks == 1
MaxDeepCalls == 3
MaxDeepCount == 5
MaxPasses == 9

(* ---------------- grid ---------------- *)
Cells == (0 .. Height - 1) \X (0 .. Width - 1)

None == <<>>

\* the double loop of add_knowledge / nearby_mines, clipped to the grid
Around(cell) ==
    { c \in ((cell[1] - 1) .. (cell[1] + 1)) \X ((cell[2] - 1) .. (cell[2] + 1)) :
        /\ c # cell
        /\ 0 <= c[1] /\ c[1] < Height
        /\ 0 <= c[2] /\ c[2] < Width }

\* Minesweeper.nearby_mines
nearby_mines(cell) == Cardinality({ c \in Around(cell) : c \in board })

\* Minesweeper.is_mine
is_mine(cell) == cell \in board

(* ---------------- Sentence ---------------- *)
Sentence(cells, count) == [cells |-> cells, count |-> count]

known_mines_atleast(s) == IF Cardinality(s.cells) >= s.count THEN s.cells ELSE {}

known_mines(s) == IF Cardinality(s.cells) = s.count THEN s.cells ELSE {}

known_safes_upto(s) == IF s.count <= 0 THEN s.cells ELSE {}

known_safes_full(s) == IF Cardinality(s.cells) = s.count THEN s.cells ELSE {}

known_safes(s) == IF s.count = 0 THEN s.cells ELSE {}

Sentence_mark_mine_always(s, cell) ==
    [cells |-> s.cells \ {cell}, count |-> s.count - 1]

Sentence_mark_mine_keep_count(s, cell) ==
    IF cell \in s.cells
    THEN [cells |-> s.cells \ {cell}, count |-> s.count]
    ELSE s

Sentence_mark_mine(s, cell) ==
    IF cell \in s.cells
    THEN [cells |-> s.cells \ {cell}, count |-> s.count - 1]
    ELSE s

Sentence_mark_safe_decrement(s, cell) ==
    IF cell \in s.cells
    THEN [cells |-> s.cells \ {cell}, count |-> s.count - 1]
    ELSE s

Sentence_mark_safe(s, cell) ==
    IF cell \in s.cells
    THEN [cells |-> s.cells \ {cell}, count |-> s.count]
    ELSE s

(* ---------------- MinesweeperAI ---------------- *)
\* the agent's mutable fields as one record, threaded through the methods
AI(mm, m, sf, k) == [moves_made |-> mm, mines |-> m, safes |-> sf, knowledge |-> k]

mark_mine_no_propagation(st, cell) == [st EXCEPT !.mines = @ \cup {cell}]

mark_mine(st, cell) ==
    [st EXCEPT !.mines = @ \cup {cell},
               !.knowledge = [i \in DOMAIN @ |-> Sentence_mark_mine(@[i], cell)]]

mark_safe_reset(st, cell) ==
    [st EXCEPT !.safes = {cell},
               !.knowledge = [i \in DOMAIN @ |-> Sentence_mark_safe(@[i], cell)]]

mark_safe(st, cell) ==
    [st EXCEPT !.safes = @ \cup {cell},
               !.knowledge = [i \in DOMAIN @ |-> Sentence_mark_safe(@[i], cell)]]

\* "for mine in mines: self.mark_mine(mine)"
RECURSIVE MarkMines(_, _)
MarkMines(st, cs) ==
    IF cs = {} THEN st
    ELSE LET c == CHOOSE x \in cs : TRUE
         IN MarkMines(mark_mine(st, c), cs \ {c})

\* "for safe in safes: self.mark_safe(safe)"
RECURSIVE MarkSafes(_, _)
MarkSafes(st, cs) ==
    IF cs = {} THEN st
    ELSE LET c == CHOOSE x \in cs : TRUE
         IN MarkSafes(mark_safe(st, c), cs \ {c})

\* body of the first loop of apply_inference for sentence i
ExtractStep(st, i) ==
    LET s == st.knowledge[i]
        ms == known_mines(s)
        ss == known_safes(s)
    IN MarkSafes(MarkMines(st, ms), ss)

\* the first loop over sentences lo .. hi in order; the range is halved so
\* that long knowledge lists are evaluated with shallow nesting
RECURSIVE ExtractRange(_, _, _)
ExtractRange(st, lo, hi) ==
    IF lo > hi \/ hi > Len(st.knowledge) THEN st
    ELSE IF lo = hi THEN ExtractStep(st, lo)
    ELSE LET mid == (lo + hi) \div 2
             st1 == ExtractRange(st, lo, mid)
         IN ExtractRange(st1, mid + 1, hi)

\* first loop of apply_inference, sentence i onwards
ExtractLoop(st, i) == ExtractRange(st, i, Len(st.knowledge))

Prune_nothing(k) == k

\* "[s for s in self.knowledge if len(s.cells) > 0]"
Prune(k) == SelectSeq(k, LAMBDA s : Cardinality(s.cells) > 0)

InSeq(x, k) == \E i \in DOMAIN k : k[i] = x

Inferred_swapped(s1, s2) == Sentence(s2.cells \ s1.cells, s1.count - s2.count)

\* the sentence built from a pair in the subset step
Inferred(s1, s2) == Sentence(s2.cells \ s1.cells, s2.count - s1.count)

\* nested s1/s2 loop of apply_inference: the ordered pairs are taken in the
\* order of the two for loops, and the result is new_knowledge
SubsetLoop(k) ==
    LET n == Len(k)
        pairs == [p \in 1 .. n * n |->
                    LET s1 == k[((p - 1) \div n) + 1]
                        s2 == k[((p - 1) % n) + 1]
                        new_sentence == Inferred(s1, s2)
                    IN [sentence |-> new_sentence,
                        added |-> /\ s1 # s2
                                  /\ s1.cells \subseteq s2.cells
                                  /\ ~InSeq(new_sentence, k)]]
        kept == SelectSeq(pairs, LAMBDA c : c.added)
    IN [i \in 1 .. Len(kept) |-> kept[i].sentence]

apply_inference(st) ==
    LET st1 == ExtractLoop(st, 1)
        k == Prune(st1.knowledge)
    IN [st1 EXCEPT !.knowledge = k \o SubsetLoop(k)]

neighbors_with_safes(st, cell) == { c \in Around(cell) : c \notin st.mines }

neighbors_with_mines(st, cell) == { c \in Around(cell) : c \notin st.safes }

\* neighbours collected by add_knowledge, against the sets of st
neighbors(st, cell) == { c \in Around(cell) : c \notin st.safes /\ c \notin st.mines }

add_sentence_unmarked(st, cell, count) ==
    LET st1 == [st EXCEPT !.moves_made = @ \cup {cell}]
    IN [st1 EXCEPT !.knowledge = Append(@, Sentence(neighbors(st1, cell), count))]

\* steps 1-3 of add_knowledge: the state handed to apply_inference
add_sentence(st, cell, count) ==
    LET st1 == [st EXCEPT !.moves_made = @ \cup {cell}]
        st2 == mark_safe(st1, cell)
    IN [st2 EXCEPT !.knowledge = Append(@, Sentence(neighbors(st2, cell), count))]

add_knowledge(st, cell, count) == apply_inference(add_sentence(st, cell, count))

make_safe_move_results_any_safe(st) ==
    IF st.safes = {} THEN {None} ELSE st.safes

make_safe_move_results(st) ==
    IF st.safes \ st.moves_made = {} THEN {None} ELSE st.safes \ st.moves_made

make_random_move_results_with_mines(st) ==
    LET available_moves == { c \in Cells : c \notin st.moves_made }
    IN IF available_moves = {} THEN {None} ELSE available_moves

make_random_move_results(st) ==
    LET available_moves == { c \in Cells : c \notin st.moves_made /\ c \notin st.mines }
    IN IF available_moves = {} THEN {None} ELSE available_moves

(* ---------------- state machine ---------------- *)
Self == AI(moves_made, mines, safes, knowledge)

Store(st) ==
    /\ moves_made' = st.moves_made
    /\ mines' = st.mines
    /\ safes' = st.safes
    /\ knowledge' = st.knowledge

Call(name, cell, count) == [name |-> name, cell |-> cell, count |-> count]

Layouts == { b \in SUBSET Cells : Cardinality(b) <= MaxMines }

InitAI ==
    /\ moves_made = {}
    /\ mines = {}
    /\ safes = {}
    /\ knowledge = <<>>
    /\ op = Call("init", None, 0)
    /\ ret = None
    /\ calls = 0
    /\ trusted = TRUE

\* agent driven by an arbitrary caller; the board plays no part
Init == board = {} /\ InitAI

\* agent attached to a game with some mine layout
InitGame == board \in Layouts /\ InitAI

\* the host's count: mines among the neighbours the agent is still unsure of
FilteredCount(cell) == Cardinality({ c \in neighbors(Self, cell) : is_mine(c) })

\* the documented input of add_knowledge: a safe cell and its count
Truthful(cell, count) == ~is_mine(cell) /\ count = FilteredCount(cell)

\* ai.add_knowledge(cell, count) with any count
Observe(cell, count) ==
    /\ trusted' = (trusted /\ Truthful(cell, count))
    /\ Store(add_knowledge(Self, cell, count))
    /\ op' = Call("add_knowledge", cell, count)
    /\ ret' = None
    /\ calls' = calls + 1
    /\ UNCHANGED board

ObserveFiltered(cell) == ~is_mine(cell) /\ Observe(cell, FilteredCount(cell))

ObserveRaw(cell) == ~is_mine(cell) /\ Observe(cell, nearby_mines(cell))

MarkMine(cell) ==
    /\ calls < MaxCalls
    /\ Store(mark_mine(Self, cell))
    /\ op' = Call("mark_mine", cell, 0)
    /\ ret' = None
    /\ calls' = calls + 1
    /\ UNCHANGED <<board, trusted>>

MarkSafe(cell) ==
    /\ calls < MaxCalls
    /\ Store(mark_safe(Self, cell))
    /\ op' = Call("mark_safe", cell, 0)
    /\ ret' = None
    /\ calls' = calls + 1
    /\ UNCHANGED <<board, trusted>>

ApplyInference ==
    /\ calls < MaxCalls
    /\ Store(apply_inference(Self))
    /\ op' = Call("apply_inference", None, 0)
    /\ ret' = None
    /\ calls' = calls + 1
    /\ UNCHANGED <<board, trusted>>

MakeSafeMove ==
    /\ \E r \in make_safe_move_results(Self) : ret' = r
    /\ op' = Call("make_safe_move", None, 0)
    /\ UNCHANGED <<board, moves_made, mines, safes, knowledge, calls, trusted>>

MakeRandomMove ==
    /\ \E r \in make_random_move_results(Self) : ret' = r
    /\ op' = Call("make_random_move", None, 0)
    /\ UNCHANGED <<board, moves_made, mines, safes, knowledge, calls, trusted>>

ObserveAny ==
    /\ calls < MaxCalls
    /\ \E cell \in Cells, count \in 0 .. MaxCount : Observe(cell, count)

ObserveGame ==
    /\ calls < MaxMoves
    /\ \E cell \in Cells : ObserveFiltered(cell)

ObserveGameRaw ==
    /\ calls < MaxRawMoves
    /\ \E cell \in Cells : ObserveRaw(cell)

MarkMineAny == \E cell \in Cells : MarkMine(cell)
MarkSafeAny == \E cell \in Cells : MarkSafe(cell)

\* add_knowledge calls only
Next == ObserveAny
Spec == Init /\ [][Next]_vars

\* add_knowledge calls, then the agent is asked for moves
ObserveSetup ==
    /\ calls < MaxSetup
    /\ \E cell \in Cells, count \in 0 .. MaxCount : Observe(cell, count)

NextMoves == ObserveSetup \/ MakeSafeMove \/ MakeRandomMove
SpecMoves == Init /\ [][NextMoves]_vars

\* every public mutator of the agent
NextAgent == ObserveAny \/ MarkMineAny \/ MarkSafeAny \/ ApplyInference
SpecAgent == Init /\ [][NextAgent]_vars

\* a game whose host reports the filtered count
NextGame == ObserveGame
SpecGame == InitGame /\ [][NextGame]_vars

\* a game whose host reports Minesweeper.nearby_mines
NextRaw == ObserveGameRaw
SpecRaw == InitGame /\ [][NextRaw]_vars

\* add_knowledge calls, one call deeper than Spec and with counts up to the
\* number of neighbours a cell can have
ObserveDeep ==
    /\ calls < MaxDeepCalls
    /\ \E cell \in Cells, count \in 0 .. MaxDeepCount : Observe(cell, count)

NextDeep == ObserveDeep
SpecDeep == Init /\ [][NextDeep]_vars

\* cells one step outside the grid, which add_knowledge accepts as well
Outside == ((-1 .. Height) \X (-1 .. Width)) \ Cells

ObserveOutside ==
    /\ calls < MaxCalls
    /\ \E cell \in Outside, count \in 0 .. MaxCount : Observe(cell, count)

\* add_knowledge called with cells inside and outside the grid
NextOutside == ObserveAny \/ ObserveOutside
SpecOutside == Init /\ [][NextOutside]_vars

\* a Sentence built directly, as in the module's own test lines
InitSentence ==
    /\ board = {}
    /\ moves_made = {}
    /\ mines = {}
    /\ safes = {}
    /\ \E cells \in SUBSET Cells, count \in 0 .. MaxCount :
          /\ Cardinality(cells) <= MaxLen
          /\ knowledge = <<Sentence(cells, count)>>
    /\ op = Call("Sentence", None, 0)
    /\ ret = None
    /\ calls = 0
    /\ trusted = TRUE

SentenceMarkMine ==
    /\ calls < MaxMarks
    /\ \E cell \in Cells :
          /\ knowledge' = <<Sentence_mark_mine(knowledge[1], cell)>>
          /\ op' = Call("Sentence.mark_mine", cell, 0)
    /\ ret' = None
    /\ calls' = calls + 1
    /\ UNCHANGED <<board, moves_made, mines, safes, trusted>>

SentenceMarkSafe ==
    /\ calls < MaxMarks
    /\ \E cell \in Cells :
          /\ knowledge' = <<Sentence_mark_safe(knowledge[1], cell)>>
          /\ op' = Call("Sentence.mark_safe", cell, 0)
    /\ ret' = None
    /\ calls' = calls + 1
    /\ UNCHANGED <<board, moves_made, mines, safes, trusted>>

KnownMines ==
    /\ ret' = known_mines(knowledge[1])
    /\ op' = Call("known_mines", None, 0)
    /\ UNCHANGED <<board, moves_made, mines, safes, knowledge, calls, trusted>>

KnownSafes ==
    /\ ret' = known_safes(knowledge[1])
    /\ op' = Call("known_safes", None, 0)
    /\ UNCHANGED <<board, moves_made, mines, safes, knowledge, calls, trusted>>

NextSentence == SentenceMarkMine \/ SentenceMarkSafe \/ KnownMines \/ KnownSafes
SpecSentence == InitSentence /\ [][NextSentence]_vars

(* ---------------- properties ---------------- *)
Unknown(cell) == cell \notin safes /\ cell \notin mines

\* C1 (as stated): after any sequence of add_knowledge calls no cell is in
\* both safes and mines.
C1_Disjoint == safes \cap mines = {}

\* C1 (amended): an add_knowledge call on a cell that is not in mines at the
\* time of the call keeps safes and mines disjoint; so they stay disjoint as
\* long as no call observes a cell the agent holds to be a mine.
C1_DisjointStep ==
    [][(C1_Disjoint /\ op'.name = "add_knowledge" /\ op'.cell \notin mines)
          => C1_Disjoint']_vars

C1_Witness ==
    /\ op.name = "add_knowledge"
    /\ calls >= 2
    /\ safes # {} /\ mines # {}
    /\ C1_Disjoint
Sound == mines \subseteq board /\ safes \cap board = {}

Determined(s) == s.cells # {} /\ (s.count = 0 \/ s.count = Cardinality(s.cells))

SentenceSet(k) == { k[i] : i \in DOMAIN k }

C3_Eager ==
    op.name \in {"add_knowledge", "mark_mine", "mark_safe"}
        => \A i \in DOMAIN knowledge :
               knowledge[i].cells \cap (safes \cup mines) = {}

\* the sentence built for an observed neighbour of the marked cell has lost it
C3_Witness ==
    /\ op.name = "mark_mine"
    /\ \E c \in moves_made :
          /\ op.cell \in Around(c)
          /\ \E i \in DOMAIN knowledge :
                /\ knowledge[i].cells = Around(c) \ {op.cell}
                /\ knowledge[i].cells # {}

\* C4: the closure run by add_knowledge makes known the cells of every
\* fully determined sentence S2 - S1 obtained from two distinct sentences
\* with S1.cells a subset of S2.cells (all mines when its count equals its
\* size, all safe when its count is 0).
C4_SubsetClosure ==
    [][op'.name = "add_knowledge" =>
         LET k == add_sentence(Self, op'.cell, op'.count).knowledge
         IN \A i, j \in DOMAIN k :
              (k[i] # k[j] /\ k[i].cells \subseteq k[j].cells) =>
                 LET d == Inferred(k[i], k[j])
                 IN /\ d.count = Cardinality(d.cells) => d.cells \subseteq mines'
                    /\ d.count = 0 => d.cells \subseteq safes']_vars

\* C5: when add_knowledge returns, no sentence with cells left is fully
\* determined, and one more inference pass changes neither safes, mines nor
\* the set of sentences.
C5_FixedPoint ==
    op.name = "add_knowledge" =>
        /\ \A i \in DOMAIN knowledge : ~Determined(knowledge[i])
        /\ LET st == apply_inference(Self)
           IN /\ st.safes = safes
              /\ st.mines = mines
              /\ SentenceSet(st.knowledge) = SentenceSet(knowledge)

\* C6 (as stated): after add_knowledge(cell, 0) every neighbour of cell that
\* was unknown before the call is in safes.
C6_ZeroCount ==
    [][(op'.name = "add_knowledge" /\ op'.count = 0) =>
         \A c \in Around(op'.cell) : Unknown(c) => c \in safes']_vars

\* C6 (amended): after add_knowledge(cell, 0) every neighbour of cell that
\* was unknown before the call is in safes, unless the call put one of those
\* neighbours in mines.
C6_ZeroCountNoMine ==
    [][(op'.name = "add_knowledge" /\ op'.count = 0) =>
         LET n == { c \in Around(op'.cell) : Unknown(c) }
         IN n \cap mines' = {} => n \subseteq safes']_vars

C6_Witness ==
    /\ op.name = "add_knowledge"
    /\ op.count = 0
    /\ moves_made = {op.cell}
    /\ Cardinality(Around(op.cell)) >= 3
    /\ Around(op.cell) \subseteq safes

\* C7: make_safe_move returns a cell of safes - moves_made when there is
\* one, and None exactly when there is none.
C7_SafeMove ==
    op.name = "make_safe_move" =>
        /\ ret # None => (ret \in safes /\ ret \notin moves_made)
        /\ ret = None <=> safes \ moves_made = {}

C7_Witness ==
    /\ op.name = "make_safe_move"
    /\ ret # None
    /\ moves_made # {}

C9_RawUnsound == ~Sound => ~trusted

C9_Witness ==
    /\ op.name = "add_knowledge"
    /\ ~Sound

\* C10: with a non-mine cell and the filtered count at every add_knowledge
\* call, every sentence of knowledge has 0 <= count <= len(cells).
C10_CountRange ==
    \A i \in DOMAIN knowledge :
        /\ 0 <= knowledge[i].count
        /\ knowledge[i].count <= Cardinality(knowledge[i].cells)

\* a sentence that lost a cell, a derived sentence, and a count strictly inside
C10_Witness ==
    /\ Len(knowledge) >= 3
    /\ \E i \in DOMAIN knowledge : \E c \in moves_made :
          knowledge[i].cells # {} /\ knowledge[i].cells \subseteq Around(c) \ moves_made
                                  /\ knowledge[i].cells # Around(c)
    /\ \E i \in DOMAIN knowledge :
          /\ knowledge[i].count > 0
          /\ knowledge[i].count < Cardinality(knowledge[i].cells)

\* C11: moves_made, safes and mines only grow: no add_knowledge, mark_mine,
\* mark_safe (or apply_inference) step removes a cell from any of them.
C11_OnlyGrow ==
    [][/\ moves_made \subseteq moves_made'
       /\ safes \subseteq safes'
       /\ mines \subseteq mines']_vars

C11_Witness ==
    /\ op.name = "mark_safe"
    /\ calls >= 2
    /\ moves_made # {}
    /\ safes \ (moves_made \cup {op.cell}) # {}

\* C17 (as stated): when add_knowledge returns, no sentence of knowledge has
\* an empty cell set, whatever the counts passed.
C17_NoEmpty ==
    op.name = "add_knowledge" =>
        \A i \in DOMAIN knowledge : knowledge[i].cells # {}

\* C17 (amended): when add_knowledge returns, no sentence of knowledge has an
\* empty cell set and count 0; an empty sentence is left only with a
\* non-zero count (derived from two sentences with the same cells and
\* different counts).
C17_NoEmptyZero ==
    op.name = "add_knowledge" =>
        \A i \in DOMAIN knowledge :
            knowledge[i].cells = {} => knowledge[i].count # 0

\* a call whose own sentence had no cell left, and was dropped
C17_Witness ==
    /\ op.name = "add_knowledge"
    /\ calls >= 2
    /\ Around(op.cell) \subseteq safes \cup mines
    /\ knowledge # <<>>
    /\ \A i \in DOMAIN knowledge : knowledge[i].cells # {}

\* C18: the sentence add_knowledge(cell, count) appends has the given count
\* and, as cells, exactly the grid cells within one row and column of cell,
\* other than cell, that are in neither safes nor mines once cell itself
\* has been marked safe.
C18_NewSentence ==
    [][op'.name = "add_knowledge" =>
         LET k == add_sentence(Self, op'.cell, op'.count).knowledge
             cell == op'.cell
             adjacent(c) == /\ c[1] - cell[1] \in {-1, 0, 1}
                            /\ c[2] - cell[2] \in {-1, 0, 1}
         IN /\ Len(k) = Len(knowledge) + 1
            /\ k[Len(k)].count = op'.count
            /\ k[Len(k)].cells =
                  { c \in Cells : /\ adjacent(c)
                                  /\ c # cell
                                  /\ c \notin safes \cup {cell}
                                  /\ c \notin mines }]_vars

\* the sentence of the last call is still there, built around known cells
C18_Witness ==
    /\ op.name = "add_knowledge"
    /\ calls >= 2
    /\ \E c \in Around(op.cell) : c \in moves_made
    /\ \E i \in DOMAIN knowledge :
          /\ knowledge[i].cells = Around(op.cell) \ (safes \cup mines)
          /\ knowledge[i].cells # {}
          /\ knowledge[i].count = op.count

\* C20: after add_knowledge(cell, count) the cell is in moves_made and in
\* safes, and moves_made stays a subset of safes.
C20_VisitedSafe ==
    /\ moves_made \subseteq safes
    /\ op.name = "add_knowledge" => (op.cell \in moves_made /\ op.cell \in safes)

C20_Witness ==
    /\ op.name = "add_knowledge"
    /\ Cardinality(moves_made) >= 2
    /\ safes \ moves_made # {}

\* C12: Sentence.mark_mine(c) removes c from cells and lowers count by
\* exactly 1 when c is in cells, and changes nothing when it is not.
C12_SentenceMarkMine ==
    [][op'.name = "Sentence.mark_mine" =>
         LET old == knowledge[1]
             new == knowledge'[1]
         IN IF op'.cell \in old.cells
            THEN new.cells = old.cells \ {op'.cell} /\ new.count = old.count - 1
            ELSE new.cells = old.cells /\ new.count = old.count]_vars

\* a count below 0 can only come from removing a member at count 0
C12_Witness ==
    /\ op.name = "Sentence.mark_mine"
    /\ knowledge[1].cells # {}
    /\ op.cell \notin knowledge[1].cells
    /\ knowledge[1].count = -1

\* C13: Sentence.mark_safe(c) removes c from cells and keeps count when c is
\* in cells, and changes nothing when it is not.
C13_SentenceMarkSafe ==
    [][op'.name = "Sentence.mark_safe" =>
         LET old == knowledge[1]
             new == knowledge'[1]
         IN IF op'.cell \in old.cells
            THEN new.cells = old.cells \ {op'.cell} /\ new.count = old.count
            ELSE new.cells = old.cells /\ new.count = old.count]_vars

C13_Witness ==
    /\ op.name = "Sentence.mark_safe"
    /\ knowledge[1].cells # {}
    /\ op.cell \notin knowledge[1].cells
    /\ knowledge[1].count = Cardinality(knowledge[1].cells)

\* C14: known_mines returns cells when len(cells) = count and the empty set
\* otherwise, known_safes returns cells when count = 0 and the empty set
\* otherwise, neither changes the sentence, and they are never both
\* non-empty.
C14_Certainties ==
    [][LET s == knowledge[1]
       IN /\ op'.name = "known_mines" =>
               /\ knowledge' = knowledge
               /\ ret' = (IF Cardinality(s.cells) = s.count THEN s.cells ELSE {})
          /\ op'.name = "known_safes" =>
               /\ knowledge' = knowledge
               /\ ret' = (IF s.count = 0 THEN s.cells ELSE {})
          /\ op'.name \in {"known_mines", "known_safes"} =>
               (known_mines(s) = {} \/ known_safes(s) = {})]_vars

C14_Witness ==
    /\ op.name = "known_mines"
    /\ calls = 1
    /\ ret # {}
    /\ ret = knowledge[1].cells

\* C15: add_knowledge with a cell outside the grid does not return normally
\* (it signals an invalid argument) and leaves moves_made, safes, mines and
\* knowledge as they were.
C15_FailFast ==
    [][(op'.name = "add_knowledge" /\ op'.cell \notin Cells) =>
         /\ UNCHANGED <<moves_made, safes, mines, knowledge>>
         /\ ret' # None]_vars

\* C16: after the inference pass of an add_knowledge call, no sentence that
\* the subset step appended in that pass equals any other sentence of
\* knowledge, whether that one was there before or was appended in the same
\* pass.
C16_Dedup ==
    [][op'.name = "add_knowledge" =>
         LET st1 == ExtractLoop(add_sentence(Self, op'.cell, op'.count), 1)
             k == Prune(st1.knowledge)
         IN \A i \in (Len(k) + 1) .. Len(knowledge') :
              \A j \in DOMAIN knowledge' :
                i # j => knowledge'[i] # knowledge'[j]]_vars

\* repeating apply_inference from st, with no call in between, reaches within
\* n passes a state that one more pass leaves unchanged
RECURSIVE ConvergesWithin(_, _)
ConvergesWithin(st, n) ==
    LET t == apply_inference(st)
    IN IF /\ t.safes = st.safes
          /\ t.mines = st.mines
          /\ SentenceSet(t.knowledge) = SentenceSet(st.knowledge)
       THEN TRUE
       ELSE n > 0 /\ ConvergesWithin(t, n - 1)

\* C19: from any state reached by add_knowledge calls on cells of
\* the grid, repeated inference passes reach a state that one further pass
\* leaves unchanged in safes, mines and the set of sentences.
C19_Converges == op.name = "add_knowledge" => ConvergesWithin(Self, MaxPasses)
====
